---------------------------- MODULE Spec2Model ----------------------------
(***************************************************************************)
(* A model of tailtracker: the TailTracker class (tracker.py) and the      *)
(* click state machine of TailInitializationWidget (gui/widget.py).        *)
(*                                                                         *)
(* Representation.                                                         *)
(*  - None is the empty tuple; an optional integer v is the 1-tuple <<v>>. *)
(*  - A frame is a tuple of rows of non-negative integer samples; pixel    *)
(*    (x, y) of frame f is f[y + 1][x + 1] (numpy index [y, x]).           *)
(*  - A float array is a record [num, den]: the array num / den, element   *)
(*    by element.  den = 0 arises only from an all-zero frame, where every *)
(*    element is 0/0, a NaN.                                               *)
(*  - A string is the tuple of its character codes, so that str.lower()    *)
(*    is computed character by character.                                  *)
(*  - Angles that steer the search (start_angle, the arc) are integers in  *)
(*    units of pi/76: a quarter turn is 38 units and the step of           *)
(*    linspace(c - pi/2, c + pi/2, 20), pi/19, is 4 units.  cos and sin    *)
(*    are fixed-point values with four decimals; the arithmetic on them is *)
(*    exact, where the program's is IEEE double.                           *)
(*  - tail_angle, an arctan2 result that nothing reads back, is kept as    *)
(*    the reduced direction <<y, x>> it is the angle of.                   *)
(***************************************************************************)
EXTENDS Integers, Sequences, FiniteSets, TLC

VARIABLES
    tracker,            \* the TailTracker object (the widget's self.tracker)
    frame,              \* the image given to track/preprocess by the last operation
    ret,                \* what that call returned
    raised,             \* the exception that propagated out of the last operation
    steps,              \* the search loop's locals at each iteration of the last track
    calls,              \* the TailTracker methods the last operation ran, in order
    seen,               \* the first result of track since the configuration changed
    fp_call,            \* the points given to the from_points call that built tracker
    image,              \* widget: self.image
    w_points,           \* widget: self.points
    current_state,      \* widget: the active state of state_machine
    accept_enabled,     \* widget: accept_button.isEnabled()
    hint,               \* widget: index into hints shown by hint_label
    w_ret,              \* widget: self.ret
    n_points_spinbox,   \* widget: n_points_spinbox.value()
    ksize_spinbix,      \* widget: ksize_spinbix.value()
    background_combo,   \* widget: background_combo.currentIndex()
    image_combo,        \* widget: image_combo.currentIndex()
    tracking_checkbox,  \* widget: tracking_checkbox.checkState() as a boolean
    tracked,            \* widget: the points plotted by self.tracked
    clicks              \* left clicks handled since the last erase

widgetVars == <<image, w_points, current_state, accept_enabled, hint, w_ret,
                n_points_spinbox, ksize_spinbix, background_combo, image_combo,
                tracking_checkbox, tracked, clicks>>

callVars == <<frame, ret, raised, steps, calls, seen, fp_call>>

vars == <<tracker, callVars, widgetVars>>

---------------------------------------------------------------------------
(* Bounds of the model. *)

MaxTail == 4        \* tail_length given to the constructor ranges over 0..MaxTail
MaxN == 3           \* n_points given to the constructor ranges over 1..MaxN
MaxClicks == 2      \* clicks keeps the first MaxClicks left clicks since an erase

---------------------------------------------------------------------------
(* Values. *)

None == <<>>

Some(v) == <<v>>

Val(o) == o[1]

Abs(i) == IF i < 0 THEN -i ELSE i

\* the sequence f with every element evaluated
Array(f) == f \o <<>>

\* the element of a set of one element; Only({e(x) : x \in {v}}) is e(v) with
\* v evaluated once, as a local variable is
Only(S) == CHOOSE r \in S : TRUE

\* float -> int conversion (astype(int), int()): truncation toward zero of a / b, b > 0
TruncDiv(a, b) == IF a >= 0 THEN a \div b ELSE -((-a) \div b)

RECURSIVE GCD(_, _)
GCD(a, b) == IF b = 0 THEN a ELSE GCD(b, a % b)

\* floor of the square root of n >= 0
ISqrt(n) == CHOOSE r \in 0..n : r * r <= n /\ (r + 1) * (r + 1) > n

\* character-code strings
STR_light == <<108, 105, 103, 104, 116>>

STR_Light == <<76, 105, 103, 104, 116>>

STR_LIGHT == <<76, 73, 71, 72, 84>>

STR_dark == <<100, 97, 114, 107>>

STR_Dark == <<68, 97, 114, 107>>

STR_DARK == <<68, 65, 82, 75>>

\* str.lower() on ASCII text
Lower(s) ==
    Array([i \in 1..Len(s) |-> IF s[i] >= 65 /\ s[i] <= 90 THEN s[i] + 32 ELSE s[i]])

---------------------------------------------------------------------------
(* Trigonometry in units of pi/76, scaled by TrigScale. *)

TrigScale == 10000

CosQ == <<10000, 9991, 9966, 9923, 9864, 9787, 9694, 9584, 9458, 9316,
          9158, 8984, 8795, 8591, 8372, 8138, 7891, 7631, 7357, 7071,
          6773, 6463, 6142, 5811, 5469, 5119, 4759, 4392, 4017, 3635,
          3247, 2853, 2455, 2052, 1646, 1237, 826, 413, 0>>

\* np.cos
Cos(k) ==
    LET m == k % 152 IN
    IF m <= 38 THEN CosQ[m + 1]
    ELSE IF m <= 76 THEN -CosQ[76 - m + 1]
    ELSE IF m <= 114 THEN -CosQ[m - 76 + 1]
    ELSE CosQ[152 - m + 1]

\* np.sin
Sin(k) == Cos(k - 38)

\* np.arctan2(y, x) as a search angle: the unit of pi/76 in -75..76 nearest to
\* the direction (exact for the axes and the diagonals); arctan2(0, 0) = 0
Arctan2Units(y, x) ==
    IF y = 0 /\ x = 0 THEN 0
    ELSE Only({(CHOOSE i \in 1..152 : \A j \in 1..152 : dot[i] >= dot[j]) - 76 :
                  dot \in {Array([i \in 1..152 |-> x * Cos(i - 76) + y * Sin(i - 76)])}})

\* np.arctan2(y, x) as a result: the direction it is the angle of, reduced
Arctan2Dir(y, x) ==
    IF y = 0 /\ x = 0 THEN <<0, 1>>
    ELSE LET g == GCD(Abs(y), Abs(x)) IN <<y \div g, x \div g>>

---------------------------------------------------------------------------
(* Frames and float arrays. *)

Height(f) == Len(f)

Width(f) == Len(f[1])

FrameZero == << <<0, 0, 0, 0>>,
                <<0, 0, 0, 0>>,
                <<0, 0, 0, 0>> >>

FrameBlob == << <<5, 5, 5, 5>>,
                <<5, 0, 9, 5>>,
                <<5, 5, 7, 5>> >>

FrameRamp == << <<1, 2, 3, 4>>,
                <<2, 3, 4, 5>>,
                <<3, 4, 5, 8>> >>

Frames == {FrameZero, FrameBlob, FrameRamp}

\* np.max(image)
FrameMax(f) ==
    CHOOSE m \in {f[y][x] : y \in 1..Height(f), x \in 1..Width(f)} :
        \A y \in 1..Height(f), x \in 1..Width(f) : f[y][x] <= m

\* cv2 borderInterpolate for BORDER_REFLECT_101 (BORDER_DEFAULT)
RECURSIVE BorderInterpolate(_, _)
BorderInterpolate(p, len) ==
    IF len = 1 THEN 0
    ELSE IF p < 0 THEN BorderInterpolate(-p, len)
    ELSE IF p >= len THEN BorderInterpolate(2 * len - 2 - p, len)
    ELSE p

\* cv2.boxFilter(src, -1, (k, k), dst): normalized mean over the k x k window
\* anchored at its centre, borders reflected
BoxFilter(src, k) ==
    LET H == Height(src.num)
        W == Width(src.num)
        anchor == k \div 2
        at(y, x) == src.num[BorderInterpolate(y, H) + 1][BorderInterpolate(x, W) + 1]
        rowsum(y, x) ==
            LET s[i \in 0..k] == IF i = 0 THEN 0 ELSE s[i - 1] + at(y, x - anchor + i - 1)
            IN  s[k]
        winsum(y, x) ==
            LET s[i \in 0..k] == IF i = 0 THEN 0 ELSE s[i - 1] + rowsum(y - anchor + i - 1, x)
            IN  s[k]
    IN  [num |-> Array([y \in 1..H |-> Array([x \in 1..W |-> winsum(y - 1, x - 1)])]),
         den |-> src.den * k * k]

\* image / np.max(image)
Normalize(img) == [num |-> img, den |-> FrameMax(img)]

\* BoxFilter on the normalized frames of Frames, evaluated once
Filtered == [f \in Frames, k \in {1, 3, 7} |-> BoxFilter(Normalize(f), k)] @@ <<>>

\* cv2.boxFilter(self._normalized, -1, (self.ksize, self.ksize), mask)
boxFilter(src, k) ==
    IF <<src.num, k>> \in DOMAIN Filtered /\ src.den = FrameMax(src.num)
    THEN Filtered[src.num, k]
    ELSE BoxFilter(src, k)

IsNaN(buf) == buf.den = 0

---------------------------------------------------------------------------
(* TailTracker. *)

\* background.setter with the comparison made on the value as given:
\* "Dark" and "DARK" would keep np.argmin
SetBackgroundCaseSensitive(t, val) ==
    [t EXCEPT !._background = Lower(val),
              !._minmax_function = IF val = STR_dark THEN "argmax" ELSE "argmin"]

\* background.setter
SetBackground(t, val) ==
    LET b == Lower(val) IN
    [t EXCEPT !._background = b,
              !._minmax_function = IF b = STR_dark THEN "argmax" ELSE "argmin"]

\* TailTracker.__init__
TailTrackerInit(start_point, tail_length, n_points, start_angle, background, ksize, n_tip_points) ==
    SetBackground(
        [start_point |-> start_point,
         tail_length |-> tail_length,
         n_points |-> n_points,
         start_angle |-> start_angle,
         _background |-> None,
         _minmax_function |-> "",
         ksize |-> ksize,
         n_tip_points |-> n_tip_points,
         _image |-> None,
         _normalized |-> None,
         _filtered |-> None,
         points |-> <<>>,
         points_array |-> <<>>,
         tail_angle |-> <<0, 1>>],
        background)

\* int(np.linalg.norm(v)) with the distance rounded up instead of truncated
IntNormCeil(v) ==
    LET n == v[1] * v[1] + v[2] * v[2]
        r == ISqrt(n)
    IN  IF r * r = n THEN r ELSE r + 1

\* int(np.linalg.norm(v))
IntNorm(v) == ISqrt(v[1] * v[1] + v[2] * v[2])

\* TailTracker.from_points(points, n, background=..., ksize=...)
from_points(pts, n, background, ksize) ==
    LET p0 == pts[1]
        p1 == pts[2]
        v == <<p1[1] - p0[1], p1[2] - p0[2]>>
        d == IntNorm(v)
        angle == Arctan2Units(-v[2], v[1])
    IN  TailTrackerInit(p0, Some(d), Some(n), angle, background, ksize, 3)

\* TailTracker.preprocess that keeps the first image it was given
preprocessCached(t, img) ==
    IF t._image # None THEN t
    ELSE [t EXCEPT !._image = Some(img),
                   !._normalized = Some(Normalize(img)),
                   !._filtered = Some(boxFilter(Normalize(img), t.ksize))]

\* TailTracker.preprocess: the tracker after the call; it returns _filtered
preprocess(t, img) ==
    Only({[t EXCEPT !._image = Some(img),
                    !._normalized = Some(normalized),
                    !._filtered = Some(boxFilter(normalized, t.ksize))] :
             normalized \in {Normalize(img)}})

\* TailTracker.compute_tail_angle
compute_tail_angle(tail_points, n_points, baseline) ==
    LET len == Len(tail_points)
        k == IF n_points = 0 \/ n_points > len THEN len ELSE n_points
        sx[i \in 0..k] == IF i = 0 THEN 0 ELSE sx[i - 1] + tail_points[len - k + i][1]
        sy[i \in 0..k] == IF i = 0 THEN 0 ELSE sy[i - 1] + tail_points[len - k + i][2]
        \* v1 - v0, scaled by k * TrigScale
        x == TrigScale * (sx[k] - k * tail_points[1][1]) - k * Cos(baseline)
        y == TrigScale * (sy[k] - k * tail_points[1][2]) - k * Sin(baseline)
    IN  Arctan2Dir(-y, x)

\* the check that opens track
Unconfigured(t) == t.start_point = None \/ t.tail_length = None \/ t.n_points = None

NumArc == 20

\* np.linspace(a - pi/2, a + pi/2, 20)[i]
ArcAngle(a, i) == a - 38 + 4 * i

\* xs = (x + spacing * np.cos(arc)).astype(int), spacing = tail_length / n_points
Xs(t, x, a) ==
    LET L == Val(t.tail_length)
        n == Val(t.n_points)
    IN  Array([i \in 1..NumArc |->
            TruncDiv(x * n * TrigScale + L * Cos(ArcAngle(a, i - 1)), n * TrigScale)])

\* ys = (y - spacing * np.sin(arc)).astype(int)
Ys(t, y, a) ==
    LET L == Val(t.tail_length)
        n == Val(t.n_points)
    IN  Array([i \in 1..NumArc |->
            TruncDiv(y * n * TrigScale - L * Sin(ArcAngle(a, i - 1)), n * TrigScale)])

\* numpy accepts index i on an axis of length len when -len <= i < len
IndexOk(i, len) == -len <= i /\ i < len

\* track_image[ys, xs] raises IndexError
IndexError(buf, ys, xs) ==
    \E i \in 1..NumArc :
        ~(IndexOk(ys[i], Height(buf.num)) /\ IndexOk(xs[i], Width(buf.num)))

\* track_image[y, x]: a negative index counts from the end of its axis
Sample(buf, y, x) ==
    buf.num[(IF y < 0 THEN y + Height(buf.num) ELSE y) + 1]
           [(IF x < 0 THEN x + Width(buf.num) ELSE x) + 1]

\* np.argmin / np.argmax over the samples: the first extremum, or the first NaN
MinMax(f, buf, samples) ==
    IF IsNaN(buf) THEN 0
    ELSE CHOOSE i \in 0..(NumArc - 1) :
            /\ \A j \in 0..(NumArc - 1) :
                  IF f = "argmax" THEN samples[j + 1] <= samples[i + 1]
                                  ELSE samples[j + 1] >= samples[i + 1]
            /\ \A j \in 0..(i - 1) : samples[j + 1] # samples[i + 1]

\* the except branch with the failed step skipped
OnIndexErrorSkip(pts) == pts

\* except IndexError: self.points.append(self.points[-1])
OnIndexError(pts) == Append(pts, pts[Len(pts)])

\* idx = self._minmax_function(track_image[ys, xs])
PickIndex(t, buf, xs, ys) ==
    Only({MinMax(t._minmax_function, buf, samples) :
             samples \in {Array([i \in 1..NumArc |-> Sample(buf, ys[i], xs[i])])}})

\* the try block of the loop, were the next arc centred where this one was
StepFoundSameArc(t, buf, s, xs, ys) ==
    Only({[x |-> xs[idx + 1], y |-> ys[idx + 1], a |-> s.a,
           points |-> Append(s.points, <<xs[idx + 1], ys[idx + 1]>>),
           trace |-> Append(s.trace, [x |-> s.x, y |-> s.y, a |-> s.a,
                                      ok |-> TRUE, idx |-> idx])] :
             idx \in {PickIndex(t, buf, xs, ys)}})

\* the try block of the loop once the indexing has succeeded, at candidates xs, ys
StepFound(t, buf, s, xs, ys) ==
    Only({[x |-> xs[idx + 1], y |-> ys[idx + 1], a |-> ArcAngle(s.a, idx),
           points |-> Append(s.points, <<xs[idx + 1], ys[idx + 1]>>),
           trace |-> Append(s.trace, [x |-> s.x, y |-> s.y, a |-> s.a,
                                      ok |-> TRUE, idx |-> idx])] :
             idx \in {PickIndex(t, buf, xs, ys)}})

\* the except branch of the loop, were it to take the search back to the start
StepFailedRestart(s) ==
    [s EXCEPT !.x = s.points[1][1], !.y = s.points[1][2],
              !.points = OnIndexError(s.points),
              !.trace = Append(s.trace, [x |-> s.x, y |-> s.y, a |-> s.a,
                                         ok |-> FALSE, idx |-> -1])]

\* the except branch of the loop
StepFailed(s) ==
    [s EXCEPT !.points = OnIndexError(s.points),
              !.trace = Append(s.trace, [x |-> s.x, y |-> s.y, a |-> s.a,
                                         ok |-> FALSE, idx |-> -1])]

\* one iteration of the for loop of track; s holds the loop's locals: the
\* position (x, y), the arc's centre a, self.points, and trace, the locals on
\* entry to each earlier iteration with what the iteration did
SearchStep(t, buf, s) ==
    Only({IF IndexError(buf, ys, xs) THEN StepFailed(s) ELSE StepFound(t, buf, s, xs, ys) :
             xs \in {Xs(t, s.x, s.a)}, ys \in {Ys(t, s.y, s.a)}})

\* for j in range(self.n_points)
RECURSIVE TrackLoop(_, _, _, _)
TrackLoop(t, buf, j, s) ==
    IF j = Val(t.n_points) THEN s
    ELSE Only({TrackLoop(t, buf, j + 1, s1) : s1 \in {SearchStep(t, buf, s)}})

\* where the search of track starts, were it to resume from the last chain
SearchStartResumed(t) ==
    LET p == IF t.points = <<>> THEN t.start_point ELSE t.points[Len(t.points)]
    IN  [x |-> p[1], y |-> p[2], a |-> t.start_angle, points |-> <<t.start_point>>,
         trace |-> <<>>]

\* x, y = self.start_point; self.points = [[x, y]]; arc centred on self.start_angle
SearchStart(t) ==
    [x |-> t.start_point[1], y |-> t.start_point[2], a |-> t.start_angle,
     points |-> <<t.start_point>>, trace |-> <<>>]

\* the end of track: points_array, tail_angle and the value returned, with the
\* loop's trace
TrackEnd(t, run) ==
    Only({[tracker |-> [t EXCEPT !.points = run.points,
                                 !.points_array = run.points,
                                 !.tail_angle = angle],
           ret |-> Some(angle),
           steps |-> run.trace,
           calls |-> <<"track", "preprocess">>] :
             angle \in {compute_tail_angle(run.points, t.n_tip_points, t.start_angle)}})

\* the search of track on the tracker t1 that preprocess left
TrackSearch(t1) ==
    Only({TrackEnd(t1, run) :
             run \in {TrackLoop(t1, Val(t1._filtered), 0, SearchStart(t1))}})

\* track on a configured tracker, were it to move the seed to the chain's end
TrackRunReseed(t, img) ==
    Only({[r EXCEPT !.tracker.start_point = r.tracker.points[Len(r.tracker.points)]] :
             r \in {TrackSearch(preprocess(t, img))}})

\* track on a configured tracker: the tracker after the call and the loop's trace
TrackRun(t, img) == Only({TrackSearch(t1) : t1 \in {preprocess(t, img)}})

\* track on an unconfigured tracker, were the check made after preprocessing
TrackAbsentLate(t, img) ==
    [tracker |-> preprocess(t, img), ret |-> None, steps |-> <<>>,
     calls |-> <<"track", "preprocess">>]

\* track on an unconfigured tracker: return None at once
TrackAbsent(t, img) == [tracker |-> t, ret |-> None, steps |-> <<>>, calls |-> <<"track">>]

\* TailTracker.track
track(t, img) == IF Unconfigured(t) THEN TrackAbsent(t, img) ELSE TrackRun(t, img)

---------------------------------------------------------------------------
(* The tracker used through its API: constructed directly or by from_points, *)
(* then tracked, preprocessed and reconfigured in any order.                 *)

StartPoints == {<<0, 0>>, <<2, 1>>, <<3, 2>>}

StartAngles == {0, 38}

Backgrounds == {STR_light, STR_Light, STR_LIGHT, STR_dark, STR_Dark, STR_DARK}

Ksizes == {1, 3}

ClickPoints == {<<0, 0>>, <<1, 1>>, <<2, 0>>}

\* no widget is involved
WidgetIdle ==
    /\ image = None
    /\ w_points = <<>>
    /\ current_state = "s0"
    /\ accept_enabled = FALSE
    /\ hint = 0
    /\ w_ret = FALSE
    /\ n_points_spinbox = 10
    /\ ksize_spinbix = 7
    /\ background_combo = 0
    /\ image_combo = 0
    /\ tracking_checkbox = TRUE
    /\ tracked = <<>>
    /\ clicks = <<>>

NoCall ==
    /\ frame = None
    /\ ret = None
    /\ raised = ""
    /\ steps = <<>>
    /\ calls = <<>>
    /\ seen = <<>>

\* tracker = TailTracker(start_point, tail_length, n_points, start_angle, background, ksize)
InitDirect ==
    \E sp \in StartPoints \cup {None},
       tl \in {Some(l) : l \in 0..MaxTail} \cup {None},
       n \in {Some(k) : k \in 1..MaxN} \cup {None},
       sa \in StartAngles, bg \in Backgrounds, ks \in Ksizes :
        /\ tracker \in {TailTrackerInit(sp, tl, n, sa, bg, ks, 3)}
        /\ fp_call = None

\* tracker = TailTracker.from_points((p0, p1), n, background=bg)
InitFromPoints ==
    \E p0 \in ClickPoints, p1 \in ClickPoints, n \in 1..MaxN, bg \in Backgrounds :
        /\ tracker \in {from_points(<<p0, p1>>, n, bg, 7)}
        /\ fp_call = <<p0, p1>>

Init == (InitDirect \/ InitFromPoints) /\ NoCall /\ WidgetIdle

\* the first result of track, and whether another frame was tracked after it
Remember(s, img, r) ==
    IF r.ret = None THEN s
    ELSE IF s = None
         THEN Some([frame |-> img, angle |-> r.tracker.tail_angle,
                    points |-> r.tracker.points, other |-> FALSE])
    ELSE IF Val(s).frame # img THEN Some([Val(s) EXCEPT !.other = TRUE])
    ELSE s

\* angle = tracker.track(img)
Track(img) ==
    \E r \in {track(tracker, img)} :
    /\ tracker' = r.tracker
    /\ frame' = img
    /\ ret' = r.ret
    /\ raised' = ""
    /\ steps' = r.steps
    /\ calls' = r.calls
    /\ seen' = Remember(seen, img, r)
    /\ UNCHANGED <<fp_call, widgetVars>>

\* buf = tracker.preprocess(img)
Preprocess(img) ==
    /\ tracker' = preprocess(tracker, img)
    /\ frame' = img
    /\ ret' = tracker'._filtered
    /\ raised' = ""
    /\ steps' = <<>>
    /\ calls' = <<"preprocess">>
    /\ UNCHANGED <<seen, fp_call, widgetVars>>

\* an attribute assignment: no call is made, the results remembered are stale
Assigned ==
    /\ frame' = None
    /\ ret' = None
    /\ raised' = ""
    /\ steps' = <<>>
    /\ calls' = <<>>
    /\ seen' = <<>>
    /\ UNCHANGED <<fp_call, widgetVars>>

\* tracker.background = val
AssignBackground(val) ==
    /\ tracker' = SetBackground(tracker, val)
    /\ Assigned

Next ==
    \/ \E img \in Frames : Track(img)
    \/ \E img \in Frames : Preprocess(img)
    \/ \E val \in Backgrounds : AssignBackground(val)

Spec == Init /\ [][Next]_vars

---------------------------------------------------------------------------
(* TailInitializationWidget: the handlers of its signals, each run to its   *)
(* end.  A signal reaches state_machine when it is emitted, and a state is  *)
(* in the configuration when its entered signal is delivered.  The canvas   *)
(* (path, image_data, draw) is not part of the state.                       *)

NPointsChoices == {10, 3}

KsizeChoices == {7, 3}

WidgetFrames == {FrameBlob, FrameRamp}

WidgetClickPoints == {<<0, 0>>, <<1, 1>>}

\* background_combo.currentText()
BackgroundText(i) == IF i = 0 THEN STR_Light ELSE STR_Dark

\* the transitions of _init_states without the one from s2 on pointsErased
TransitionNoEraseFromS2(state, signal) ==
    CASE state = "s0" /\ signal = "pointAdded" -> "s1"
      [] state = "s1" /\ signal = "pointAdded" -> "s2"
      [] state = "s1" /\ signal = "pointsErased" -> "s0"
      [] OTHER -> state

\* the transitions added in _init_states
Transition(state, signal) ==
    CASE state = "s0" /\ signal = "pointAdded" -> "s1"
      [] state = "s1" /\ signal = "pointAdded" -> "s2"
      [] state = "s1" /\ signal = "pointsErased" -> "s0"
      [] state = "s2" /\ signal = "pointsErased" -> "s0"
      [] OTHER -> state

\* new_point without the length check
new_pointUnguarded(pts, p) == Append(pts, p)

\* new_point: self.points after the click
new_point(pts, p) == IF Len(pts) < 2 THEN Append(pts, p) ELSE pts

\* update_image_data: get_display_image() runs tracker.preprocess when the
\* filtered image is displayed
update_image_data(t, combo, img) ==
    IF combo = 1 /\ img # None
    THEN [tracker |-> preprocess(t, img), calls |-> <<"preprocess">>, frame |-> img]
    ELSE [tracker |-> t, calls |-> <<>>, frame |-> None]

\* update_tracking
update_tracking(t, checked, state, img) ==
    IF checked /\ state = "s2"
    THEN Only({[tracker |-> r.tracker, tracked |-> r.tracker.points, ret |-> r.ret,
                steps |-> r.steps, calls |-> r.calls, frame |-> img] :
                  r \in {track(t, img)}})
    ELSE [tracker |-> t, tracked |-> <<>>, ret |-> None, steps |-> <<>>,
          calls |-> <<>>, frame |-> None]

\* what a handler leaves behind: d from update_image_data (or the calls made
\* before), u from update_tracking
Handled(d, u) ==
    /\ tracker' = u.tracker
    /\ tracked' = u.tracked
    /\ frame' = IF u.frame # None THEN u.frame ELSE d.frame
    /\ ret' = IF u.calls # <<>> THEN u.ret
              ELSE IF d.calls = <<"preprocess">> THEN d.tracker._filtered
              ELSE None
    /\ raised' = ""
    /\ steps' = u.steps
    /\ calls' = d.calls \o u.calls
    /\ UNCHANGED seen

\* a handler that reaches neither update_image_data nor update_tracking
HandledQuietly ==
    /\ frame' = None
    /\ ret' = None
    /\ raised' = ""
    /\ steps' = <<>>
    /\ calls' = <<>>
    /\ UNCHANGED <<tracker, tracked, seen>>

\* initialize_tracker, on s2.entered
initialize_tracker(pts) ==
    \E t \in {from_points(pts, n_points_spinbox, BackgroundText(background_combo),
                            ksize_spinbix)} :
      \E u \in {update_tracking(t, tracking_checkbox, "s2", image)} :
        /\ Handled([calls |-> <<"from_points">>, frame |-> None], u)
        /\ fp_call' = pts

\* mouse_button_pressed with the left button, at (x, y) = p inside the axes
LeftClick(p) ==
    /\ image # None
    /\ \E pts \in {new_point(w_points, p)}, st \in {Transition(current_state, "pointAdded")} :
        /\ w_points' = pts
        /\ current_state' = st
        /\ clicks' = IF Len(clicks) < MaxClicks THEN Append(clicks, p) ELSE clicks
        /\ IF st = current_state
           THEN HandledQuietly /\ UNCHANGED <<accept_enabled, hint, fp_call>>
           ELSE IF st = "s1"
           THEN /\ hint' = 1
                /\ HandledQuietly
                /\ UNCHANGED <<accept_enabled, fp_call>>
           ELSE /\ accept_enabled' = TRUE
                /\ hint' = 2
                /\ initialize_tracker(pts)
    /\ UNCHANGED <<image, w_ret, n_points_spinbox, ksize_spinbix, background_combo,
                   image_combo, tracking_checkbox>>

\* mouse_button_pressed with the right button: erase
RightClick ==
    /\ image # None
    /\ w_points' = <<>>
    /\ clicks' = <<>>
    /\ \E st \in {Transition(current_state, "pointsErased")} :
        /\ current_state' = st
        /\ IF st = current_state
           THEN HandledQuietly /\ UNCHANGED <<accept_enabled, hint>>
           ELSE /\ accept_enabled' = FALSE
                /\ hint' = 0
                /\ \E u \in {update_tracking(tracker, tracking_checkbox, st, image)} :
                       Handled([calls |-> <<>>, frame |-> None], u)
    /\ UNCHANGED <<fp_call, image, w_ret, n_points_spinbox, ksize_spinbix, background_combo,
                   image_combo, tracking_checkbox>>

\* a mouse press while no image is shown: the handler returns at once
ClickWithoutImage ==
    /\ image = None
    /\ UNCHANGED vars

\* update_tracker_params, with the widgets' values n, b, k
update_tracker_params(n, b, k) ==
    \E t \in {[SetBackground(tracker, BackgroundText(b)) EXCEPT
                   !.n_points = Some(n), !.ksize = k]} :
      \E d \in {update_image_data(t, image_combo, image)} :
      \E u \in {update_tracking(d.tracker, tracking_checkbox, current_state, image)} :
        Handled(d, u)

\* n_points_spinbox.valueChanged
NPointsChanged(v) ==
    /\ v # n_points_spinbox
    /\ n_points_spinbox' = v
    /\ update_tracker_params(v, background_combo, ksize_spinbix)
    /\ UNCHANGED <<fp_call, image, w_points, current_state, accept_enabled, hint, w_ret,
                   ksize_spinbix, background_combo, image_combo, tracking_checkbox, clicks>>

\* ksize_spinbix.valueChanged
KsizeChanged(v) ==
    /\ v # ksize_spinbix
    /\ ksize_spinbix' = v
    /\ update_tracker_params(n_points_spinbox, background_combo, v)
    /\ UNCHANGED <<fp_call, image, w_points, current_state, accept_enabled, hint, w_ret,
                   n_points_spinbox, background_combo, image_combo, tracking_checkbox,
                   clicks>>

\* background_combo.currentIndexChanged
BackgroundChanged(i) ==
    /\ i # background_combo
    /\ background_combo' = i
    /\ update_tracker_params(n_points_spinbox, i, ksize_spinbix)
    /\ UNCHANGED <<fp_call, image, w_points, current_state, accept_enabled, hint, w_ret,
                   n_points_spinbox, ksize_spinbix, image_combo, tracking_checkbox, clicks>>

\* image_combo.currentIndexChanged: change_displayed_image
ImageSelected(i) ==
    /\ i # image_combo
    /\ image_combo' = i
    /\ \E d \in {update_image_data(tracker, i, image)} :
        Handled(d,
                [tracker |-> d.tracker, tracked |-> tracked, ret |-> None, steps |-> <<>>,
                 calls |-> <<>>, frame |-> None])
    /\ UNCHANGED <<fp_call, image, w_points, current_state, accept_enabled, hint, w_ret,
                   n_points_spinbox, ksize_spinbix, background_combo, tracking_checkbox,
                   clicks>>

\* tracking_checkbox.stateChanged
TrackingToggled ==
    /\ tracking_checkbox' = ~tracking_checkbox
    /\ \E u \in {update_tracking(tracker, ~tracking_checkbox, current_state, image)} :
        Handled([calls |-> <<>>, frame |-> None], u)
    /\ UNCHANGED <<fp_call, image, w_points, current_state, accept_enabled, hint, w_ret,
                   n_points_spinbox, ksize_spinbix, background_combo, image_combo, clicks>>

\* new_image
NewImage(img) ==
    /\ image' = img
    /\ \E d \in {update_image_data(tracker, image_combo, img)} :
      \E u \in {update_tracking(d.tracker, tracking_checkbox, current_state, img)} :
        Handled(d, u)
    /\ UNCHANGED <<fp_call, w_points, current_state, accept_enabled, hint, w_ret,
                   n_points_spinbox, ksize_spinbix, background_combo, image_combo,
                   tracking_checkbox, clicks>>

\* accept_button.clicked, which a disabled button does not emit: set_retval(True)
AcceptClicked ==
    /\ accept_enabled
    /\ w_ret' = TRUE
    /\ HandledQuietly
    /\ UNCHANGED <<fp_call, image, w_points, current_state, accept_enabled, hint,
                   n_points_spinbox, ksize_spinbix, background_combo, image_combo,
                   tracking_checkbox, clicks>>

\* cancel_button.clicked: set_retval(False)
CancelClicked ==
    /\ w_ret' = FALSE
    /\ HandledQuietly
    /\ UNCHANGED <<fp_call, image, w_points, current_state, accept_enabled, hint,
                   n_points_spinbox, ksize_spinbix, background_combo, image_combo,
                   tracking_checkbox, clicks>>

\* TailInitializationWidget(image), once the event loop has started state_machine
WidgetInit ==
    /\ tracker = TailTrackerInit(None, None, Some(10), 0, STR_light, 7, 3)
    /\ fp_call = None
    /\ NoCall
    /\ image \in WidgetFrames \cup {None}
    /\ w_points = <<>>
    /\ current_state = "s0"
    /\ accept_enabled = FALSE
    /\ hint = 0
    /\ w_ret = FALSE
    /\ n_points_spinbox = 10
    /\ ksize_spinbix = 7
    /\ background_combo = 0
    /\ image_combo = 0
    /\ tracking_checkbox = TRUE
    /\ tracked = <<>>
    /\ clicks = <<>>

WidgetNext ==
    \/ \E p \in WidgetClickPoints : LeftClick(p)
    \/ RightClick
    \/ ClickWithoutImage
    \/ \E v \in NPointsChoices : NPointsChanged(v)
    \/ \E v \in KsizeChoices : KsizeChanged(v)
    \/ \E i \in {0, 1} : BackgroundChanged(i)
    \/ \E i \in {0, 1} : ImageSelected(i)
    \/ TrackingToggled
    \/ \E img \in WidgetFrames : NewImage(img)
    \/ AcceptClicked
    \/ CancelClicked

WidgetSpec == WidgetInit /\ [][WidgetNext]_vars

---------------------------------------------------------------------------
(* Properties of the tracker, checked under Spec. *)

\* the last operation was track(frame) and it ran the search
Tracked == calls = <<"track", "preprocess">>

\* C1: after track on a configured tracker the chain has exactly n_points + 1
\* points and its index 0 is the configured start_point, whether the steps of
\* the search succeeded or ran out of the buffer
C1_ChainLength ==
    Tracked =>
        /\ Len(tracker.points) = Val(tracker.n_points) + 1
        /\ tracker.points[1] = tracker.start_point
        /\ tracker.points_array = tracker.points
        /\ Len(steps) = Val(tracker.n_points)

\* C1 witness: a track whose search had a successful step and then a failed one
C1_MixedSteps ==
    /\ Tracked
    /\ Len(steps) = 2
    /\ steps[1].ok
    /\ ~steps[2].ok

\* C2: track on a tracker with start_point, tail_length or n_points unset returns
\* None, for every frame, without running preprocess, without raising, and
\* leaves the tracker as it was
C2_AbsentWhenUnconfigured ==
    [][\A img \in Frames :
          (Unconfigured(tracker) /\ Track(img)) =>
              /\ ret' = None
              /\ calls' = <<"track">>
              /\ raised' = ""
              /\ tracker' = tracker]_vars

\* C2 witness: an unconfigured tracker has been given the all-zero frame
C2_AbsentOnZeroFrame ==
    /\ Unconfigured(tracker)
    /\ calls = <<"track">>
    /\ frame = FrameZero
    /\ ret = None

\* a candidate of the step entered at st lies outside the buffer of frame img:
\* x < 0, y < 0, x >= width or y >= height
CandidateOutside(t, img, st) ==
    \E i \in 1..NumArc :
        \/ Xs(t, st.x, st.a)[i] < 0
        \/ Ys(t, st.y, st.a)[i] < 0
        \/ Xs(t, st.x, st.a)[i] >= Width(img)
        \/ Ys(t, st.y, st.a)[i] >= Height(img)

\* C3: a search step with a candidate outside the buffer appends a copy of the
\* previous chain point and leaves the position and the arc centre as they were
C3_OutsideStepRepeats ==
    Tracked =>
        \A j \in 1..Len(steps) :
            CandidateOutside(tracker, frame, steps[j]) =>
                /\ ~steps[j].ok
                /\ tracker.points[j + 1] = tracker.points[j]
                /\ j < Len(steps) =>
                      /\ steps[j + 1].x = steps[j].x
                      /\ steps[j + 1].y = steps[j].y
                      /\ steps[j + 1].a = steps[j].a

\* C4: preprocess or track of a frame whose maximum is zero raises InvalidFrame
\* instead of returning a buffer
C4_ZeroFrameRaises ==
    (frame # None /\ FrameMax(frame) = 0 /\ "preprocess" \in {calls[i] : i \in 1..Len(calls)})
        => raised = "InvalidFrame"

\* the configuration of tracker t
Configuration(t) ==
    <<t.start_point, t.start_angle, t.tail_length, t.n_points, t._background,
      t._minmax_function, t.ksize, t.n_tip_points>>

\* C5: a track or preprocess call (the steps that leave calls non-empty), on any
\* frame, leaves start_point, start_angle, tail_length, n_points, background,
\* ksize and n_tip_points as they were
C5_TrackingKeepsConfiguration ==
    [][calls' # <<>> => Configuration(tracker') = Configuration(tracker)]_vars

\* C5 witness: a configured tracker has tracked two different frames
C5_TrackedTwoFrames ==
    /\ Tracked
    /\ seen # None
    /\ Val(seen).other
    /\ tracker.points # <<tracker.start_point, tracker.start_point>>
    /\ Len(tracker.points) = 3

\* C6: for one configuration, track on a frame gives the angle and the chain
\* that the first track on that frame gave, whatever was tracked or preprocessed
\* in between
C6_HistoryIndependent ==
    (Tracked /\ seen # None /\ Val(seen).frame = frame) =>
        /\ tracker.tail_angle = Val(seen).angle
        /\ tracker.points = Val(seen).points
        /\ ret = Some(Val(seen).angle)

\* C6 witness: the first frame is tracked again after another frame was tracked,
\* and the chain leaves the start point
C6_RetrackedAfterOther ==
    /\ Tracked
    /\ seen # None
    /\ Val(seen).frame = frame
    /\ Val(seen).other
    /\ \E j \in 1..Len(tracker.points) : tracker.points[j] # tracker.start_point

\* the samples track_image[ys, xs] of the step entered at st, after track on t
StepSamples(t, st) ==
    Only({Array([i \in 1..NumArc |-> Sample(Val(t._filtered), ys[i], xs[i])]) :
             xs \in {Xs(t, st.x, st.a)}, ys \in {Ys(t, st.y, st.a)}})

\* the step entered at st picked an extremum of its samples: the largest when
\* dark is TRUE, the smallest otherwise
PickedExtremum(t, st, dark) ==
    \E smp \in {StepSamples(t, st)} :
        \A i \in 1..NumArc :
            IF dark THEN smp[i] <= smp[st.idx + 1] ELSE smp[i] >= smp[st.idx + 1]

\* C7: however background was assigned and in whatever letter case, the selector
\* is argmin for light and argmax for dark, and a successful search step on a
\* buffer of numbers picks a minimal sample of its arc for light and a maximal
\* one for dark
C7_SelectorFollowsBackground ==
    /\ tracker._background \in {STR_light, STR_dark}
    /\ tracker._minmax_function =
          (IF tracker._background = STR_dark THEN "argmax" ELSE "argmin")
    /\ (Tracked /\ ~IsNaN(Val(tracker._filtered))) =>
          \A j \in 1..Len(steps) :
              steps[j].ok => PickedExtremum(tracker, steps[j], tracker._background = STR_dark)

\* C7 witness: a dark-background track took a step whose samples are not all
\* equal, so that the largest differs from the smallest
C7_DarkStepPicked ==
    /\ Tracked
    /\ tracker._background = STR_dark
    /\ ~IsNaN(Val(tracker._filtered))
    /\ \E j \in 1..Len(steps) :
          /\ steps[j].ok
          /\ \E smp \in {StepSamples(tracker, steps[j])} :
                \E i \in 1..NumArc : smp[i] < smp[steps[j].idx + 1]

\* the methods the last operation ran
Called == {calls[i] : i \in 1..Len(calls)}

---------------------------------------------------------------------------
(* Properties of the widget, checked under WidgetSpec. *)

\* the squared distance between the two points given to from_points
SquaredDistance(pts) ==
    (pts[2][1] - pts[1][1]) * (pts[2][1] - pts[1][1])
        + (pts[2][2] - pts[1][2]) * (pts[2][2] - pts[1][2])

\* C8 as stated: the tracker built by from_points((p0, p1), n) starts at p0 and
\* its tail_length is the Euclidean distance from p0 to p1, not truncated
C8_TailLengthIsDistance ==
    fp_call # None =>
        /\ tracker.start_point = fp_call[1]
        /\ Val(tracker.tail_length) * Val(tracker.tail_length) = SquaredDistance(fp_call)

\* C8, amended: the tracker built by from_points((p0, p1), n) starts at p0 and
\* its tail_length is the Euclidean distance from p0 to p1 truncated to an
\* integer: the largest L with L * L <= |p1 - p0|^2
C8_TailLengthIsTruncatedDistance ==
    fp_call # None =>
        /\ tracker.start_point = fp_call[1]
        /\ tracker.tail_length # None
        /\ Val(tracker.tail_length) >= 0
        /\ Val(tracker.tail_length) * Val(tracker.tail_length) <= SquaredDistance(fp_call)
        /\ (Val(tracker.tail_length) + 1) * (Val(tracker.tail_length) + 1)
              > SquaredDistance(fp_call)

\* C8 witness: from_points has just been called with two points whose distance
\* is not an integer
C8_DiagonalPoints ==
    /\ "from_points" \in Called
    /\ fp_call = <<<<0, 0>>, <<1, 1>>>>
    /\ tracker.tail_length = Some(1)

\* C10: from_points is called only by the left click that takes the widget from
\* the one-point state to the two-point state, with exactly two points, the
\* first two left clicks since the last erase; a left click in the two-point
\* state changes neither the recorded points nor the tracker
C10_FromPointsOnSecondClick ==
    [][/\ "from_points" \in {calls'[i] : i \in 1..Len(calls')} =>
            /\ \E p \in WidgetClickPoints : LeftClick(p)
            /\ current_state = "s1"
            /\ current_state' = "s2"
            /\ Len(w_points') = 2
            /\ w_points' = clicks'
            /\ fp_call' = w_points'
            /\ tracker'.start_point = clicks'[1]
       /\ \A p \in WidgetClickPoints :
            (current_state = "s2" /\ LeftClick(p)) =>
                /\ w_points' = w_points
                /\ tracker' = tracker]_vars

\* C10 witness: the second left click has just called from_points with the two
\* points clicked, and the widget is in the two-point state
C10_TrackerFromTwoClicks ==
    /\ "from_points" \in Called
    /\ current_state = "s2"
    /\ fp_call = <<<<1, 1>>, <<0, 0>>>>
    /\ w_points = fp_call
    /\ clicks = fp_call

---------------------------------------------------------------------------
(* Properties of the search loop, checked under Spec. *)

\* the candidate with index idx of the step entered at st
Candidate(t, st, idx) == <<Xs(t, st.x, st.a)[idx + 1], Ys(t, st.y, st.a)[idx + 1]>>

\* C11: a search step whose candidates are all inside the buffer succeeds, the
\* selected candidate is appended to the chain and becomes the position of the
\* next step, and the next step's arc is centred on the selected candidate's
\* angle, running from a quarter turn below it to a quarter turn above it
C11_StepMovesToSelected ==
    Tracked =>
        \A j \in 1..Len(steps) :
            ~CandidateOutside(tracker, frame, steps[j]) =>
                /\ steps[j].ok
                /\ steps[j].idx \in 0..(NumArc - 1)
                /\ tracker.points[j + 1] = Candidate(tracker, steps[j], steps[j].idx)
                /\ j < Len(steps) =>
                      /\ <<steps[j + 1].x, steps[j + 1].y>> = tracker.points[j + 1]
                      /\ steps[j + 1].a = steps[j].a - 38 + 4 * steps[j].idx
                      /\ ArcAngle(steps[j + 1].a, 0) = steps[j + 1].a - 38
                      /\ ArcAngle(steps[j + 1].a, NumArc - 1) = steps[j + 1].a + 38

\* C11 witness: a first step with every candidate inside the buffer moved the
\* position, and the second step's arc is centred neither on start_angle nor on 0
C11_SecondArcRecentred ==
    /\ Tracked
    /\ Len(steps) = 2
    /\ ~CandidateOutside(tracker, frame, steps[1])
    /\ tracker.points[2] # tracker.start_point
    /\ steps[2].a # tracker.start_angle
    /\ steps[2].a # 0

\* C12: once a step of a track call fails with an IndexError, every later step
\* of the call is entered at the same position with the same arc, fails too and
\* appends the same point: from the failed step on the chain is constant, equal
\* to the position held when the step failed, the last point found
C12_FailureAbsorbs ==
    Tracked =>
        \A j \in 1..Len(steps) :
            ~steps[j].ok =>
                /\ tracker.points[j] = <<steps[j].x, steps[j].y>>
                /\ \A k \in j..Len(steps) :
                      /\ ~steps[k].ok
                      /\ steps[k].x = steps[j].x
                      /\ steps[k].y = steps[j].y
                      /\ steps[k].a = steps[j].a
                      /\ tracker.points[k + 1] = tracker.points[j]

\* C12 witness: a first step found a point away from the start, the second
\* step failed and a third step followed it
C12_FailedAfterFound ==
    /\ Tracked
    /\ Len(steps) = 3
    /\ steps[1].ok
    /\ tracker.points[2] # tracker.start_point
    /\ ~steps[2].ok
    /\ ~steps[3].ok
    /\ tracker.points[4] = tracker.points[2]

---------------------------------------------------------------------------
(* Properties of the widget's accept button, checked under WidgetSpec. *)

\* C13: the accept button is enabled exactly when the state machine is in the
\* two-point state, which is exactly when two points are recorded, so it is
\* disabled after an erase and through the one-point state; and the accept
\* result is set to true only while two points are recorded
C13_AcceptOnlyWithTwoPoints ==
    /\ [](/\ accept_enabled <=> current_state = "s2"
          /\ current_state = "s2" <=> Len(w_points) = 2
          /\ current_state = "s1" <=> Len(w_points) = 1
          /\ current_state = "s0" <=> Len(w_points) = 0)
    /\ [][(~w_ret /\ w_ret') =>
             /\ Len(w_points) = 2
             /\ current_state = "s2"
             /\ accept_enabled]_vars

\* C13 witness: after two points were recorded and accepted, an erase and one
\* left click have left the widget in the one-point state with accept disabled
C13_DisabledAfterErase ==
    /\ current_state = "s1"
    /\ Len(w_points) = 1
    /\ ~accept_enabled
    /\ fp_call # None
    /\ w_ret

=============================================================================
